---- MODULE Spec2Model ----
(***************************************************************************)
(* Kuaishou video downloader bot (src/main.py): the request pipeline       *)
(*   handle_message -> get_video_info -> download_video ->                 *)
(*   download_video_direct -> reply_video -> cleanup                       *)
(* as a state machine.  One step of the model is the code between two      *)
(* await points of a handler; what an awaited external call answers (the   *)
(* upstream content service, the Telegram transport) is an input of the    *)
(* step.                                                                   *)
(*                                                                         *)
(* Spec          the bot as main() builds it: one update at a time         *)
(* SpecUrl       the classifier and extract_photo_id on links of all shapes*)
(* SpecSweep     start-up on a downloads/ a former run left, and time      *)
(* SpecPeriodic  cleanup_downloads called at any moment while requests run *)
(* SpecConc      several updates in flight at once                         *)
(* SpecCmd       messages and the /start, /quality and set_quality         *)
(*               commands of one user, two updates in flight at once       *)
(***************************************************************************)
EXTENDS Integers, Sequences, FiniteSets, TLC

\* ------------------------------------------------------------- bounds
\* handler instances the model keeps (one message each at a time)
NumReq == 2
\* messages received over a run
MaxMsgs == 2
\* users sending messages
NumUsers == 1

\* entries found in downloads/ when the process starts
MaxLeftover == 3
\* seconds the clock advances in one step
tick_secs == 1800
\* ages are told apart up to this many seconds
age_cap == 7200

\* ------------------------------------------------- program constants
\* max_retries of get_video_info
max_retries == 3
\* `> 3600` of cleanup_downloads
max_age == 3600

Req == 1..NumReq
Users == 1..NumUsers
None == "none"

\* ---------------------------------------------------- text utilities
\* str[i] as a one-character string
Ch(s, i) == SubSeq(s, i, i)

UpperChars == "ABCDEFGHIJKLMNOPQRSTUVWXYZ"
LowerChars == "abcdefghijklmnopqrstuvwxyz"

\* str.lower() for one character
LowerCh(c) ==
    IF \E i \in 1..Len(UpperChars) : Ch(UpperChars, i) = c
    THEN Ch(LowerChars, CHOOSE i \in 1..Len(UpperChars) : Ch(UpperChars, i) = c)
    ELSE c

RECURSIVE lower(_)
lower(s) == IF Len(s) = 0 THEN "" ELSE LowerCh(Ch(s, 1)) \o lower(Tail(s))

IsSpace(c) == c \in {" ", "\t", "\n", "\r"}

RECURSIVE lstrip(_)
lstrip(s) == IF Len(s) > 0 /\ IsSpace(Ch(s, 1)) THEN lstrip(Tail(s)) ELSE s

RECURSIVE rstrip(_)
rstrip(s) ==
    IF Len(s) > 0 /\ IsSpace(Ch(s, Len(s)))
    THEN rstrip(SubSeq(s, 1, Len(s) - 1))
    ELSE s

\* str.strip()
strip(s) == rstrip(lstrip(s))

\* str.startswith(p)
startswith(s, p) == Len(s) >= Len(p) /\ SubSeq(s, 1, Len(p)) = p

\* `sub in s`
contains(s, sub) ==
    \E i \in 1..(Len(s) - Len(sub) + 1) : SubSeq(s, i, i + Len(sub) - 1) = sub

\* ------------------------------------------------------ URL classifier
kuaishou_domains ==
    { "v.kuaishou.com", "www.kuaishou.com", "kuaishou.com", "kuaishouapp.com",
      "c.kuaishou.com", "v.m.chenzhongtech.com", "api.kuaishouzt.com" }

is_valid_kuaishou_url(url) ==
    LET u == lower(strip(url)) IN
      \/ startswith(u, "ksy://")
      \/ \E d \in kuaishou_domains : contains(u, d)
      \/ contains(u, "short-video")

\* ------------------------------------------------- extract_photo_id
\* s.find(sub) + 1: the least position at which sub occurs in s, 0 when it does not
find(s, sub) ==
    LET I == {i \in 1..(Len(s) - Len(sub) + 1) : SubSeq(s, i, i + Len(sub) - 1) = sub}
    IN IF I = {} THEN 0 ELSE CHOOSE i \in I : \A j \in I : i <= j

\* s.split(sep)[0]
split_head(s, sep) ==
    LET i == find(s, sep) IN IF i = 0 THEN s ELSE SubSeq(s, 1, i - 1)

\* s.split(sep, 1)[1], empty when sep does not occur
split_rest(s, sep) ==
    LET i == find(s, sep) IN IF i = 0 THEN "" ELSE SubSeq(s, i + Len(sep), Len(s))

\* s.split(sep)[-1]
RECURSIVE split_last(_, _)
split_last(s, sep) ==
    IF find(s, sep) = 0 THEN s ELSE split_last(split_rest(s, sep), sep)

\* s.replace(old, '')
RECURSIVE remove_all(_, _)
remove_all(s, old) ==
    IF find(s, old) = 0 THEN s
    ELSE split_head(s, old) \o remove_all(split_rest(s, old), old)

\* the characters of a string, as a set
CharsOf(s) == {Ch(s, i) : i \in 1..Len(s)}

\* [a-zA-Z0-9]
Alnum == CharsOf(UpperChars) \cup CharsOf(LowerChars) \cup CharsOf("0123456789")

\* the longest prefix of s that has no character of stop: [^stop]*
RECURSIVE run_until(_, _)
run_until(s, stop) ==
    IF Len(s) = 0 \/ Ch(s, 1) \in stop THEN "" ELSE Ch(s, 1) \o run_until(Tail(s), stop)

\* the longest prefix of s made of characters of set: [set]*
RECURSIVE run_while(_, _)
run_while(s, set) ==
    IF Len(s) = 0 \/ Ch(s, 1) \notin set THEN "" ELSE Ch(s, 1) \o run_while(Tail(s), set)

\* re.search(lit + '([^stop]+)', s): group 1 of the leftmost match, empty when
\* there is no match
search_after(s, lit, stop) ==
    LET I == {i \in 1..(Len(s) - Len(lit)) :
                /\ SubSeq(s, i, i + Len(lit) - 1) = lit
                /\ Ch(s, i + Len(lit)) \notin stop}
    IN IF I = {} THEN ""
       ELSE LET i == CHOOSE k \in I : \A j \in I : k <= j
            IN run_until(SubSeq(s, i + Len(lit), Len(s)), stop)

\* re.search(r'/([a-zA-Z0-9]{10,})', s): group 1 of the leftmost match, empty
\* when there is no match
search_generic(s) ==
    LET I == {i \in 1..(Len(s) - 1) :
                /\ Ch(s, i) = "/"
                /\ Len(run_while(SubSeq(s, i + 1, Len(s)), Alnum)) >= 10}
    IN IF I = {} THEN ""
       ELSE LET i == CHOOSE k \in I : \A j \in I : k <= j
            IN run_while(SubSeq(s, i + 1, Len(s)), Alnum)

\* urlparse(url).query: what follows the first '?', without the fragment
url_query(url) == split_rest(split_head(url, "#"), "?")

\* parse_qs(query)[name][0]: the value of the first pair name=value whose value
\* is not blank, empty when name is not in the dict (percent-escapes and '+',
\* which none of the texts below contain, are not decoded)
RECURSIVE parse_qs_first(_, _)
parse_qs_first(query, name) ==
    IF Len(query) = 0 THEN ""
    ELSE LET pair == split_head(query, "&") IN
         IF /\ find(pair, "=") # 0
            /\ split_head(pair, "=") = name
            /\ Len(split_rest(pair, "=")) > 0
         THEN split_rest(pair, "=")
         ELSE parse_qs_first(split_rest(query, "&"), name)

\* [^/?]
SegEnd == {"/", "?"}

\* group 1 of each of `patterns` on url, in the order of the list
patterns(url) ==
    << search_after(url, "photoId=", {"&"}),
       search_after(url, "/short-video/", SegEnd),
       search_after(url, "v.kuaishou.com/", SegEnd),
       search_generic(url) >>

\* `if len(photo_id) >= 6`
min_id_len == 6

\* the `for pattern in patterns` loop: the first group of at least min_id_len
\* characters, empty when the loop returns nothing
patterns_first(url) ==
    LET ms == patterns(url)
        I == {i \in DOMAIN ms : Len(ms[i]) >= min_id_len}
    IN IF I = {} THEN "" ELSE ms[CHOOSE i \in I : \A j \in I : i <= j]

\* url.split('/')[-1].split('?')[0]
last_segment(url) == split_head(split_last(url, "/"), "?")

\* an extract_photo_id that looks at the photoId query parameter before the
\* host and path markers
extract_photo_id_query_first(url) ==
    IF startswith(url, "ksy://") THEN split_head(remove_all(url, "ksy://"), "?")
    ELSE IF parse_qs_first(url_query(url), "photoId") # ""
    THEN parse_qs_first(url_query(url), "photoId")
    ELSE IF contains(url, "v.kuaishou.com") /\ search_after(url, "v.kuaishou.com/", SegEnd) # ""
    THEN search_after(url, "v.kuaishou.com/", SegEnd)
    ELSE IF contains(url, "short-video") /\ search_after(url, "/short-video/", SegEnd) # ""
    THEN search_after(url, "/short-video/", SegEnd)
    ELSE IF patterns_first(url) # "" THEN patterns_first(url)
    ELSE last_segment(url)

extract_photo_id(url) ==
    IF startswith(url, "ksy://") THEN split_head(remove_all(url, "ksy://"), "?")
    ELSE IF contains(url, "v.kuaishou.com") /\ search_after(url, "v.kuaishou.com/", SegEnd) # ""
    THEN search_after(url, "v.kuaishou.com/", SegEnd)
    ELSE IF contains(url, "short-video") /\ search_after(url, "/short-video/", SegEnd) # ""
    THEN search_after(url, "/short-video/", SegEnd)
    ELSE IF parse_qs_first(url_query(url), "photoId") # ""
    THEN parse_qs_first(url_query(url), "photoId")
    ELSE IF patterns_first(url) # "" THEN patterns_first(url)
    ELSE last_segment(url)

\* message texts a user may send
Texts ==
    { "https://v.kuaishou.com/AbC123XyZ",
      " KSY://video123 ",
      "hello",
      "   " }

\* links of every shape extract_photo_id tells apart, and texts that are no links
UrlTexts ==
    { "https://v.kuaishou.com/AbC123XyZ",
      "ksy://video123?from=share",
      "ksy://v.kuaishou.com/ZZZ999?photoId=QQQQQQ",
      "https://v.kuaishou.com/AbC123XyZ?photoId=QQQQQQ99",
      "https://v.kuaishou.com/f/short-video/3xabc",
      "https://www.kuaishou.com/short-video/3x8wpv5je8jznzy?photoId=QQQQQQ99",
      "https://www.kuaishou.com/f/X3xabcdefghij?a=1&photoId=QQQ",
      "https://www.kuaishou.com/f/3xabcdefghijk?x=1",
      "https://www.kuaishou.com/f/X12#photoId=abcdefgh",
      "https://www.kuaishou.com/profile/3xabc?x=1",
      "https://www.kuaishou.com/new-reco",
      "https://www.kuaishou.com/",
      "https://kuaishouapp.com/f/X12",
      "https://v.kuaishou.com",
      "ksy://",
      " KSY://video123 ",
      "https://example.com/watch?v=abcdefghijkl",
      "hello",
      "   ",
      "" }

\* extract_photo_id on the texts handle_message may pass on
photo_ids == [t \in {strip(x) : x \in Texts \cup UrlTexts} |-> extract_photo_id(t)]

\* sizes of the body the media URL may answer with
ContentSizes == {0, 7}

\* ------------------------------------------------------------- state
VARIABLES
    req,            \* per handler instance: the locals of handle_message and its callees
    user_sessions,  \* user_sessions: user id -> session record, for the users that have one
    dirs,           \* the sub-directories of downloads/ that exist
    files,          \* the files under downloads/: [dir, size]
    nextId,         \* source of fresh download ids (uuid4)
    handled,        \* messages received so far
    phase,          \* where main() is: "startup" before run_polling, then "serving"
    age             \* per entry of downloads/: time.time() - os.path.getctime(entry)

vars == <<req, user_sessions, dirs, files, nextId, handled, phase, age>>

\* the locals of an idle handler instance
InitFrame ==
    [ pc |-> "idle", user |-> 0, text |-> "",
      caller |-> None, attempt |-> 0, photo_id |-> None, trace |-> <<>>,
      last_error |-> None,
      gres |-> None, video_info |-> None, user_quality |-> None,
      download_id |-> 0, fetch_calls |-> 0, download_result |-> None,
      dl_result |-> None, sent |-> FALSE, error_handled |-> FALSE,
      sweep_seen |-> FALSE,
      notices |-> 0,      \* failure notices the user has been shown for this message
      gvi_calls |-> 0,    \* calls of get_video_info made for this message
      a_calls |-> 0,      \* calls of strategy A made for this message
      sleeps |-> 0 ]      \* backoff sleeps made for this message

Init ==
    /\ req = [r \in Req |-> InitFrame]
    /\ user_sessions = <<>>
    /\ dirs = {}
    /\ files = {}
    /\ nextId = 1
    /\ handled = 0
    /\ phase = "startup"
    /\ age = <<>>

\* what an awaited Telegram call does
Outcome == {"ok", "raise"}

\* what the upstream answers a strategy: metadata found (with or without a media
\* URL), nothing usable, an error inside the strategy, or a fault escaping it
StrategyResp ==
    [kind : {"found"}, url : {"", "media"}]
      \cup [kind : {"notfound", "exc", "fault"}, url : {""}]

\* what the media URL answers download_video_direct
FetchResp ==
    [kind : {"ok"}, size : ContentSizes]
      \cup [kind : {"http_error", "exc", "fault"}, size : {0}]

Failure(text) == [success |-> FALSE, error |-> text]

\* the metadata dict of a strategy; src stands for the descriptive fields
\* (title, duration, thumbnail, view_count, uploader, photo_id) it read
Metadata(s, url) == [success |-> TRUE, src |-> s, video_url |-> url]

\* text of an exception escaping a callee
FaultText == "fault"

\* ------------------------------------------- extraction strategies
get_video_info_api(resp) ==
    CASE resp.kind = "found" -> Metadata("A", resp.url)
      [] resp.kind = "notfound" -> Failure("API methods failed")
      [] OTHER -> Failure("API error")

get_video_info_selenium_method(resp) ==
    CASE resp.kind = "found" -> Metadata("B", resp.url)
      [] resp.kind = "notfound" -> Failure("Web scraping failed")
      [] OTHER -> Failure("Scraping error")

get_video_info_ytdlp(resp) ==
    CASE resp.kind = "found" -> Metadata("C", resp.url)
      [] resp.kind = "notfound" -> Failure("yt-dlp extraction failed")
      [] OTHER -> Failure("yt-dlp error")

\* -------------------------------------------------- get_video_info
\* a yt-dlp fallback tried from the second attempt on
need_ytdlp_from_second(attempt) == attempt >= 1

\* `if attempt == 1`: the attempt that also tries yt-dlp
need_ytdlp(attempt) == attempt = 1

\* a sleep after every failed attempt, the last included
should_sleep_always(attempt) == attempt < max_retries

\* `if attempt < max_retries - 1`: a sleep follows the failed attempt
should_sleep(attempt) == attempt < max_retries - 1

\* a backoff that grows with the attempt index
backoff_linear(attempt) == 5 * (attempt + 1)

\* seconds of `asyncio.sleep(5)` after the failed attempt
backoff(attempt) == 5

\* an exhausted loop that hands the last observed error on
exhausted_result_last(last) == Failure(last)

\* the value returned once the loop is exhausted
exhausted_result(last) ==
    Failure("All methods failed to extract video information")

\* one entry of the call's trace: strategy s (or "sleep") in iteration f.attempt,
\* how it ended, the seconds slept, the dict it returned
Event(s, f, out, secs, res) ==
    [s |-> s, attempt |-> f.attempt, out |-> out, secs |-> secs, res |-> res]

\* a get_video_info that returns api_result where it should return scrape_result
returned_api_result(s, res) == IF s = "B" THEN Failure("API methods failed") ELSE res

\* `return api_result` / `return scrape_result` / `return ydl_result`
returned_value(s, res) == res

\* `return` of get_video_info to the awaiting caller
GviReturn(f, res) ==
    [f EXCEPT !.pc = IF f.caller = "hm" THEN "hm_info_ret" ELSE "dv_info_ret",
              !.gres = res]

\* the next iteration of `for attempt in range(max_retries)`
GviNextAttempt(f) ==
    IF f.attempt + 1 < max_retries
    THEN [f EXCEPT !.attempt = @ + 1, !.pc = "gvi_A"]
    ELSE GviReturn(f, exhausted_result(f.last_error))

\* the end of an iteration in which nothing succeeded
GviEndAttempt(f) ==
    IF should_sleep(f.attempt) THEN [f EXCEPT !.pc = "gvi_sleep"] ELSE GviNextAttempt(f)

\* where the iteration goes once the scraping strategy failed
GviAfterB(f) ==
    IF need_ytdlp(f.attempt) THEN [f EXCEPT !.pc = "gvi_C"] ELSE GviEndAttempt(f)

\* where the iteration goes once strategy s returned a failure
GviOnFail(f, s) ==
    CASE s = "A" -> [f EXCEPT !.pc = "gvi_B"]
      [] s = "B" -> GviAfterB(f)
      [] s = "C" -> GviEndAttempt(f)

\* one strategy call of the iteration: s the strategy, resp what the upstream
\* answered, res the dict the strategy makes of it
GviStep(f, s, resp, res) ==
    IF resp.kind = "fault"
    THEN GviEndAttempt([f EXCEPT !.trace = Append(@, Event(s, f, "raise", 0, None)),
                                 !.last_error = FaultText])
    ELSE IF res.success
    THEN GviReturn([f EXCEPT !.trace = Append(@, Event(s, f, "success", 0, res))],
                   returned_value(s, res))
    ELSE GviOnFail([f EXCEPT !.trace = Append(@, Event(s, f, "fail", 0, None)),
                             !.last_error = res.error], s)

\* entry of get_video_info from handle_message ("hm") or download_video ("dv")
GviCall(f, who) ==
    [f EXCEPT !.pc = "gvi_A", !.caller = who, !.attempt = 0, !.photo_id = None,
              !.trace = <<>>, !.last_error = None, !.gres = None,
              !.gvi_calls = @ + 1]

\* the positions at which a local is still read (by the code, or by a property
\* about the call that has just returned); elsewhere it is dropped
GviPcs == {"gvi_A", "gvi_B", "gvi_C", "gvi_sleep"}
DvPcs == {"dv_info_ret", "dv_fetch", "hm_dl_ret"}
LiveAt ==
    [ pc |-> {}, user |-> {}, text |-> {}, download_id |-> {}, sent |-> {},
      error_handled |-> {}, sweep_seen |-> {}, notices |-> {}, gvi_calls |-> {},
      a_calls |-> GviPcs \cup {"hm_info_ret", "hm_edit2", "dv_start", "dv_info_ret"},
      sleeps |-> GviPcs \cup {"hm_info_ret", "hm_edit2", "dv_start", "dv_info_ret"},
      caller |-> GviPcs,
      attempt |-> GviPcs \cup {"hm_info_ret", "dv_info_ret"},
      photo_id |-> GviPcs \cup {"hm_info_ret", "dv_info_ret"},
      trace |-> GviPcs \cup {"hm_info_ret", "dv_info_ret"},
      last_error |-> GviPcs \cup {"hm_info_ret", "dv_info_ret"},
      gres |-> {"hm_info_ret"} \cup DvPcs,
      video_info |-> {"hm_edit_fail1", "hm_edit2"},
      user_quality |-> {"hm_edit2", "dv_start"} \cup DvPcs \cup GviPcs,
      fetch_calls |-> DvPcs,
      download_result |-> {"hm_dl_ret"},
      dl_result |-> {"hm_dl_ret", "hm_edit_fail2", "hm_edit3", "hm_send"} ]

Kept == {"pc", "user", "text", "download_id", "sent", "error_handled", "sweep_seen",
         "notices", "gvi_calls"}

Live(f) ==
    LET g == f IN
    [k \in DOMAIN InitFrame |-> IF k \in Kept \/ g.pc \in LiveAt[k] THEN g[k] ELSE InitFrame[k]]

Set(r, f) == req' = [req EXCEPT ![r] = Live(f)]

\* strategy A, the upstream answering one of R: the identifier it puts into
\* its request, then the request
StrategyA(r, R) ==
    /\ \E resp \in R :
         Set(r, GviStep([req[r] EXCEPT !.photo_id = photo_ids[req[r].text],
                                       !.a_calls = @ + 1],
                        "A", resp, get_video_info_api(resp)))
    /\ UNCHANGED <<user_sessions, dirs, files, nextId, handled, phase, age>>

GviA(r) ==
    /\ req[r].pc = "gvi_A"
    /\ StrategyA(r, StrategyResp)

\* the same, the upstream answering A with metadata that has a media URL
GviAResolved(r) ==
    /\ req[r].pc = "gvi_A"
    /\ StrategyA(r, {[kind |-> "found", url |-> "media"]})

\* the same, the upstream answering A with such metadata or with nothing usable
GviAEither(r) ==
    /\ req[r].pc = "gvi_A"
    /\ StrategyA(r, {[kind |-> "found", url |-> "media"], [kind |-> "notfound", url |-> ""]})

\* strategy B, the page answering one of R
StrategyB(r, R) ==
    /\ \E resp \in R :
         Set(r, GviStep(req[r], "B", resp, get_video_info_selenium_method(resp)))
    /\ UNCHANGED <<user_sessions, dirs, files, nextId, handled, phase, age>>

GviB(r) ==
    /\ req[r].pc = "gvi_B"
    /\ StrategyB(r, StrategyResp)

\* the same, the page holding metadata with or without a media URL
GviBFound(r) ==
    /\ req[r].pc = "gvi_B"
    /\ StrategyB(r, {[kind |-> "found", url |-> "media"], [kind |-> "found", url |-> ""]})

GviC(r) ==
    /\ req[r].pc = "gvi_C"
    /\ \E resp \in StrategyResp :
         Set(r, GviStep(req[r], "C", resp, get_video_info_ytdlp(resp)))
    /\ UNCHANGED <<user_sessions, dirs, files, nextId, handled, phase, age>>

GviSleep(r) ==
    /\ req[r].pc = "gvi_sleep"
    /\ Set(r, GviNextAttempt(
                [req[r] EXCEPT !.trace =
                    Append(@, Event("sleep", req[r], "slept",
                                    backoff(req[r].attempt), None)),
                               !.sleeps = @ + 1]))
    /\ UNCHANGED <<user_sessions, dirs, files, nextId, handled, phase, age>>

\* -------------------------------------------------------- filesystem
\* an rmtree that leaves the directory in place
rmtree_dirs_skipped(d) == dirs

\* an rmtree of downloads/ itself
rmtree_dirs_all(d) == {}

\* shutil.rmtree(download_dir, ignore_errors=True)
rmtree_dirs(d) == dirs \ {d}
rmtree_files(d) == {x \in files : x.dir # d}
rmtree_age(d) == [e \in DOMAIN age \ {d} |-> age[e]]

\* ------------------------------------------------- cleanup_downloads
\* a sweep that also removes what is exactly as old as the limit
is_old_at_limit(a) == a >= max_age

\* a sweep whose limit is a minute
is_old_after_minute(a) == a > 60

\* `time.time() - dir_time > 3600`
is_old(a) == a > max_age

\* the entries a run of cleanup_downloads removes: those of os.listdir that
\* are directories and old
swept == {e \in DOMAIN age : e \in dirs /\ is_old(age[e])}

\* one run of cleanup_downloads (it awaits nothing: one step)
CleanupDownloads ==
    /\ dirs' = dirs \ swept
    /\ files' = {x \in files : x.dir \notin swept}
    /\ age' = [e \in DOMAIN age \ swept |-> age[e]]

\* main(): asyncio.run(cleanup_downloads()), then the application is built and polls
Startup ==
    /\ phase = "startup"
    /\ CleanupDownloads
    /\ phase' = "serving"
    /\ UNCHANGED <<req, user_sessions, nextId, handled>>

\* time passes: every entry of downloads/ gets older
Tick ==
    /\ age' = [e \in DOMAIN age |->
                 IF age[e] + tick_secs < age_cap THEN age[e] + tick_secs ELSE age_cap]
    /\ age' # age
    /\ UNCHANGED <<req, user_sessions, dirs, files, nextId, handled, phase>>

\* -------------------------------------------- download_video_direct
\* a fetcher that writes the response to a temporary file first and leaves it
\* next to the final one
download_video_direct_two_files(resp, d) ==
    IF resp.kind = "ok" /\ d \in dirs
    THEN [res |-> [success |-> TRUE, file_size |-> resp.size],
          wrote |-> {resp.size, resp.size + 1}]
    ELSE [res |-> Failure("Download error"), wrote |-> {}]

\* the fetcher on the answer resp of the media URL, writing into directory d:
\* res the dict it returns, wrote the sizes of the files it left in d
download_video_direct(resp, d) ==
    IF resp.kind = "ok" /\ d \in dirs
    THEN [res |-> [success |-> TRUE, file_size |-> resp.size], wrote |-> {resp.size}]
    ELSE IF resp.kind = "http_error"
    THEN [res |-> Failure("HTTP 403"), wrote |-> {}]
    ELSE [res |-> Failure("Download error"), wrote |-> {}]

\* ----------------------------------------------------- download_video
\* str(uuid.uuid4())[:8], os.makedirs(download_dir), then get_video_info
DvStart(r) ==
    /\ req[r].pc = "dv_start"
    /\ Set(r, GviCall([req[r] EXCEPT !.download_id = nextId, !.fetch_calls = 0,
                                     !.download_result = None], "dv"))
    /\ nextId' = nextId + 1
    /\ dirs' = dirs \cup {nextId}
    /\ age' = (nextId :> 0) @@ age
    /\ UNCHANGED <<user_sessions, files, handled, phase>>

\* `return` of download_video to handle_message
DvReturn(f, res) == [f EXCEPT !.pc = "hm_dl_ret", !.dl_result = res]

\* the result of download_video when metadata resolution failed
dv_resolve_failed(f) == DvReturn(f, Failure(f.gres.error))

\* the result of download_video at the end of the try block
dv_no_download(f) == DvReturn(f, Failure("No video URL found for download"))

\* a download_video that calls the fetcher whatever the metadata holds
has_video_url_unchecked(info) == TRUE

\* `if video_info.get('video_url')`: the fetcher is called
has_video_url(info) == info.video_url # ""

\* after `video_info = await self.get_video_info(url)`
DvInfoRet(r) ==
    /\ req[r].pc = "dv_info_ret"
    /\ Set(r, IF ~req[r].gres.success THEN dv_resolve_failed(req[r])
              ELSE IF has_video_url(req[r].gres) THEN [req[r] EXCEPT !.pc = "dv_fetch"]
              ELSE dv_no_download(req[r]))
    /\ UNCHANGED <<user_sessions, dirs, files, nextId, handled, phase, age>>

\* a download_video whose fetcher asks for the rendition of the quality: a
\* smaller file for anything but "best"
dv_success_by_quality(f, dres, quality) ==
    [ success |-> TRUE, src |-> f.gres.src, quality |-> quality,
      file_size |-> IF quality = "best" THEN dres.file_size ELSE 0,
      download_id |-> f.download_id ]

\* the success dict of download_video
dv_success(f, dres, quality) ==
    [ success |-> TRUE, src |-> f.gres.src, quality |-> quality,
      file_size |-> dres.file_size, download_id |-> f.download_id ]

\* `except Exception`: cleanup on error, then the failure is returned
DvExcept(r) ==
    /\ Set(r, DvReturn([req[r] EXCEPT !.fetch_calls = @ + 1], Failure("Download failed")))
    /\ dirs' = rmtree_dirs(req[r].download_id)
    /\ files' = rmtree_files(req[r].download_id)
    /\ age' = rmtree_age(req[r].download_id)

\* `download_result = await self.download_video_direct(...)` and what follows
\* it, the media URL answering one of R
Fetch(r, R) ==
    /\ \E resp \in R :
         IF resp.kind = "fault"
         THEN DvExcept(r)
         ELSE LET d == req[r].download_id
                  got == download_video_direct(resp, d)
                  f == [req[r] EXCEPT !.download_result = got.res,
                                      !.fetch_calls = @ + 1]
              IN /\ files' = files \cup {[dir |-> d, size |-> n] : n \in got.wrote}
                 /\ dirs' = dirs
                 /\ age' = IF got.wrote = {} THEN age ELSE [age EXCEPT ![d] = 0]
                 /\ Set(r, IF got.res.success
                           THEN DvReturn(f, dv_success(f, got.res, f.user_quality))
                           ELSE dv_no_download(f))
    /\ UNCHANGED <<user_sessions, nextId, handled, phase>>

DvFetch(r) ==
    /\ req[r].pc = "dv_fetch"
    /\ Fetch(r, FetchResp)

\* the same, the media URL answering with the video or with HTTP 403
DvFetchPlain(r) ==
    /\ req[r].pc = "dv_fetch"
    /\ Fetch(r, {[kind |-> "ok", size |-> 7], [kind |-> "http_error", size |-> 0]})

\* ----------------------------------------------------- handle_message
\* the session created on first contact (and by /start); last_activity, a wall
\* clock reading nothing else reads, is left out
NewSession == [quality |-> "best", download_count |-> 0]

\* a handle_message that goes on after the invalid-link notice
first_await_no_return(valid) == "hm_processing"

\* `if not downloader.is_valid_kuaishou_url(message_text)`: the notice and
\* return, else the processing message
first_await(valid) == IF valid THEN "hm_processing" ELSE "hm_reply_invalid"

\* a message of one of the users U with one of the texts T arrives and the
\* first idle handler instance takes it: session set-up and the validity check
Receive(r, U, T) ==
    /\ phase = "serving"
    /\ handled < MaxMsgs
    /\ \A q \in 1..(r - 1) : req[q].pc # "idle"
    /\ \E u \in U, t \in T :
         /\ user_sessions' =
              IF u \notin DOMAIN user_sessions
              THEN (u :> NewSession) @@ user_sessions
              ELSE user_sessions
         /\ Set(r, [InitFrame EXCEPT
                      !.user = u, !.text = strip(t),
                      !.pc = first_await(is_valid_kuaishou_url(strip(t)))])
    /\ handled' = handled + 1
    /\ UNCHANGED <<dirs, files, nextId, phase, age>>

HmReceive(r) ==
    /\ req[r].pc = "idle"
    /\ Receive(r, Users, Texts)

\* the same, the first user sending the first link
HmReceiveLink(r) ==
    /\ req[r].pc = "idle"
    /\ Receive(r, {1}, {"https://v.kuaishou.com/AbC123XyZ"})

\* the same, the text being any of UrlTexts
HmReceiveUrl(r) ==
    /\ req[r].pc = "idle"
    /\ Receive(r, Users, UrlTexts)

\* a handle_message without its try block: every fault leaves the handler
on_raise_uncaught(at) == IF at = "error_handler" THEN "done" ELSE "error_handler"

\* where control goes when the Telegram call awaited at position `at` raises:
\* out of handle_message to error_handler from the two awaits before `try` and
\* from the reply_text of the bare `except`; to the bare `except` from the
\* edit_text of `except Exception`; nowhere from error_handler, which catches
\* its own failure; to `except Exception` from everywhere else
on_raise(at) ==
    CASE at \in {"hm_reply_invalid", "hm_processing", "hm_except2"} -> "error_handler"
      [] at = "hm_except" -> "hm_except2"
      [] at = "error_handler" -> "done"
      [] OTHER -> "hm_except"

\* an awaited Telegram call: on to ok when it answers, to bad when it raises
Await(r, ok, bad) ==
    /\ \E o \in Outcome : Set(r, [req[r] EXCEPT !.pc = IF o = "ok" THEN ok ELSE bad])
    /\ UNCHANGED <<user_sessions, dirs, files, nextId, handled, phase, age>>

\* a handle_message without the `return` after its two failure edits: it
\* goes on with the failed result and faults
after_notice_no_return(at) ==
    IF at \in {"hm_edit_fail1", "hm_edit_fail2"} THEN "hm_except" ELSE "done"

\* where control goes once the failure notice awaited at position `at` has been
\* shown: `return` after the invalid-link, "Video Access Failed" and "Download
\* Failed" notices, the end of the handler after the others
after_notice(at) == "done"

\* an awaited Telegram call that shows the user a failure notice
Notice(r, at) ==
    /\ \E o \in Outcome :
         Set(r, IF o = "ok"
                THEN [req[r] EXCEPT !.pc = after_notice(at), !.notices = @ + 1]
                ELSE [req[r] EXCEPT !.pc = on_raise(at)])
    /\ UNCHANGED <<user_sessions, dirs, files, nextId, handled, phase, age>>

\* reply_text of the invalid-link notice, then return (outside the try block)
HmReplyInvalid(r) ==
    /\ req[r].pc = "hm_reply_invalid"
    /\ Notice(r, "hm_reply_invalid")

\* reply_text of the processing message (outside the try block)
HmProcessing(r) ==
    /\ req[r].pc = "hm_processing"
    /\ Await(r, "hm_edit1", on_raise("hm_processing"))

\* edit_text "Video Analysis Started", then get_video_info is entered
HmEdit1(r) ==
    /\ req[r].pc = "hm_edit1"
    /\ \E o \in Outcome :
         Set(r, IF o = "ok" THEN GviCall(req[r], "hm")
                ELSE [req[r] EXCEPT !.pc = on_raise("hm_edit1")])
    /\ UNCHANGED <<user_sessions, dirs, files, nextId, handled, phase, age>>

\* after `video_info = await downloader.get_video_info(message_text)`
HmInfoRet(r) ==
    /\ req[r].pc = "hm_info_ret"
    /\ Set(r, IF ~req[r].gres.success
              THEN [req[r] EXCEPT !.pc = "hm_edit_fail1", !.video_info = req[r].gres]
              ELSE [req[r] EXCEPT
                      !.pc = "hm_edit2", !.video_info = req[r].gres,
                      !.user_quality = user_sessions[req[r].user].quality])
    /\ UNCHANGED <<user_sessions, dirs, files, nextId, handled, phase, age>>

\* edit_text "Video Access Failed", then return
HmEditFail1(r) ==
    /\ req[r].pc = "hm_edit_fail1"
    /\ Notice(r, "hm_edit_fail1")

\* edit_text "Download Starting", then download_video is entered
HmEdit2(r) ==
    /\ req[r].pc = "hm_edit2"
    /\ Await(r, "dv_start", on_raise("hm_edit2"))

\* after `download_result = await downloader.download_video(...)`
HmDlRet(r) ==
    /\ req[r].pc = "hm_dl_ret"
    /\ Set(r, [req[r] EXCEPT !.pc = IF ~req[r].dl_result.success
                                    THEN "hm_edit_fail2" ELSE "hm_edit3"])
    /\ UNCHANGED <<user_sessions, dirs, files, nextId, handled, phase, age>>

\* edit_text "Download Failed", then return
HmEditFail2(r) ==
    /\ req[r].pc = "hm_edit_fail2"
    /\ Notice(r, "hm_edit_fail2")

\* open(download_result['filename'], 'rb') finds the file
file_exists(d) == \E x \in files : x.dir = d

\* edit_text "Download Complete", the caption, and the file is opened
HmEdit3(r) ==
    /\ req[r].pc = "hm_edit3"
    /\ \E o \in Outcome :
         Set(r, [req[r] EXCEPT !.pc =
                   IF o = "ok" /\ file_exists(req[r].dl_result.download_id)
                   THEN "hm_send" ELSE on_raise("hm_edit3")])
    /\ UNCHANGED <<user_sessions, dirs, files, nextId, handled, phase, age>>

\* a statistics update that stores 1 instead of adding 1
count_delivery_set(sessions, u) == [sessions EXCEPT ![u].download_count = 1]

\* `user_sessions[user_id]['download_count'] += 1`
count_delivery(sessions, u) == [sessions EXCEPT ![u].download_count = @ + 1]

\* reply_video; delivered: the statistics update and the immediate cleanup
HmSend(r) ==
    /\ req[r].pc = "hm_send"
    /\ \E o \in Outcome :
         IF o = "ok"
         THEN /\ Set(r, [req[r] EXCEPT !.pc = "hm_delete", !.sent = TRUE])
              /\ user_sessions' = count_delivery(user_sessions, req[r].user)
              /\ dirs' = rmtree_dirs(req[r].dl_result.download_id)
              /\ files' = rmtree_files(req[r].dl_result.download_id)
              /\ age' = rmtree_age(req[r].dl_result.download_id)
         ELSE /\ Set(r, [req[r] EXCEPT !.pc = on_raise("hm_send")])
              /\ UNCHANGED <<user_sessions, dirs, files, age>>
    /\ UNCHANGED <<nextId, handled, phase>>

\* processing_msg.delete()
HmDelete(r) ==
    /\ req[r].pc = "hm_delete"
    /\ Await(r, "hm_reply_ok", on_raise("hm_delete"))

\* reply_text "Download Successful"
HmReplyOk(r) ==
    /\ req[r].pc = "hm_reply_ok"
    /\ Await(r, "done", on_raise("hm_reply_ok"))

\* `except Exception`: edit_text "Unexpected Error Occurred"
HmExcept(r) ==
    /\ req[r].pc = "hm_except"
    /\ Notice(r, "hm_except")

\* bare `except`: reply_text "Unexpected Error Occurred"
HmExcept2(r) ==
    /\ req[r].pc = "hm_except2"
    /\ Notice(r, "hm_except2")

\* error_handler: reply_text "System Error", its own failure only logged
ErrorHandler(r) ==
    /\ req[r].pc = "error_handler"
    /\ \E o \in Outcome :
         Set(r, [req[r] EXCEPT !.pc = IF o = "ok" THEN after_notice("error_handler")
                                        ELSE on_raise("error_handler"),
                               !.notices = IF o = "ok" THEN @ + 1 ELSE @,
                               !.error_handled = TRUE])
    /\ UNCHANGED <<user_sessions, dirs, files, nextId, handled, phase, age>>

\* the handler has returned: its locals are gone
HmFinish(r) ==
    /\ req[r].pc = "done"
    /\ Set(r, InitFrame)
    /\ UNCHANGED <<user_sessions, dirs, files, nextId, handled, phase, age>>

\* ---------------------------------------------------- command handlers
\* what each set_quality_<q> handler stores, by the command that reaches it
set_quality_value ==
    [ c \in {"/set_quality_best", "/set_quality_1080", "/set_quality_720",
             "/set_quality_480", "/set_quality_360"} |->
        CASE c = "/set_quality_best" -> "best"
          [] c = "/set_quality_1080" -> "1080p"
          [] c = "/set_quality_720" -> "720p"
          [] c = "/set_quality_480" -> "480p"
          [] c = "/set_quality_360" -> "360p" ]

\* the set_quality commands users send
QualityCmds == {"/set_quality_best", "/set_quality_720"}

\* a command of one of the users U reaches its handler, the first idle handler
\* instance: sessions the session table after the handler's synchronous part,
\* at the position it then is at
Command(r, U, c, sessions, at) ==
    /\ phase = "serving"
    /\ \A q \in 1..(r - 1) : req[q].pc # "idle"
    /\ \E u \in U :
         /\ user_sessions' = sessions[u]
         /\ Set(r, [InitFrame EXCEPT !.user = u, !.text = c, !.pc = at[u]])
    /\ UNCHANGED <<dirs, files, nextId, handled, phase, age>>

\* start: the session is (re)created, then the welcome text is sent
CmdStart(r) ==
    /\ req[r].pc = "idle"
    /\ Command(r, {1}, "/start",
               [u \in Users |-> [x \in DOMAIN user_sessions \cup {u} |->
                                   IF x = u THEN NewSession ELSE user_sessions[x]]],
               [u \in Users |-> "cmd_reply"])

\* quality_command: the session is created if there is none, then the menu is sent
CmdQuality(r) ==
    /\ req[r].pc = "idle"
    /\ Command(r, {1}, "/quality",
               [u \in Users |-> IF u \in DOMAIN user_sessions THEN user_sessions
                                ELSE (u :> NewSession) @@ user_sessions],
               [u \in Users |-> "cmd_reply"])

\* set_quality_<q>: `user_sessions[user_id]['quality'] = q`, then the
\* confirmation is sent; the KeyError of a user who has no session leaves the
\* handler for error_handler
CmdSetQuality(r) ==
    /\ req[r].pc = "idle"
    /\ \E c \in QualityCmds :
         Command(r, {1}, c,
                 [u \in Users |->
                    IF u \in DOMAIN user_sessions
                    THEN [user_sessions EXCEPT ![u].quality = set_quality_value[c]]
                    ELSE user_sessions],
                 [u \in Users |->
                    IF u \in DOMAIN user_sessions THEN "cmd_reply" ELSE "error_handler"])

\* reply_text of a command handler, outside any try block
CmdReply(r) ==
    /\ req[r].pc = "cmd_reply"
    /\ Await(r, "done", "error_handler")

\* Application.builder().token(BOT_TOKEN).build(): updates are handled one at a time
Sequential == \A q \in Req : req[q].pc = "idle"

Next ==
    \E r \in Req :
      \/ Startup
      \/ Sequential /\ HmReceive(r)
      \/ HmReplyInvalid(r)
      \/ HmProcessing(r)
      \/ HmEdit1(r)
      \/ GviA(r)
      \/ GviB(r)
      \/ GviC(r)
      \/ GviSleep(r)
      \/ HmInfoRet(r)
      \/ HmEditFail1(r)
      \/ HmEdit2(r)
      \/ DvStart(r)
      \/ DvInfoRet(r)
      \/ DvFetch(r)
      \/ HmDlRet(r)
      \/ HmEditFail2(r)
      \/ HmEdit3(r)
      \/ HmSend(r)
      \/ HmDelete(r)
      \/ HmReplyOk(r)
      \/ HmExcept(r)
      \/ HmExcept2(r)
      \/ ErrorHandler(r)
      \/ HmFinish(r)

Spec == Init /\ [][Next]_vars

\* handle_message has not returned yet
InFlight(f) == f.pc \notin {"idle", "done"}

\* the scratch directory of an unfinished request exists
HoldsDir(f) == InFlight(f) /\ f.download_id \in dirs

\* a run of cleanup_downloads while the bot serves, at any moment
Sweep ==
    /\ phase = "serving"
    /\ CleanupDownloads
    /\ req' = [r \in Req |->
                 IF HoldsDir(req[r]) THEN [req[r] EXCEPT !.sweep_seen = TRUE] ELSE req[r]]
    /\ swept # {} \/ req' # req
    /\ UNCHANGED <<user_sessions, nextId, handled, phase>>

\* time passes, no unfinished request taking max_age seconds or more
TickShort ==
    /\ \A r \in Req : HoldsDir(req[r]) => age[req[r].download_id] + tick_secs < max_age
    /\ Tick

\* requests one at a time whose link strategy A resolves, time, and sweeps at
\* any moment
NextPeriodic ==
    \/ Startup
    \/ TickShort
    \/ Sweep
    \/ \E r \in Req :
         \/ Sequential /\ HmReceiveLink(r)
         \/ HmProcessing(r)
         \/ HmEdit1(r)
         \/ GviAResolved(r)
         \/ HmInfoRet(r)
         \/ HmEdit2(r)
         \/ DvStart(r)
         \/ DvInfoRet(r)
         \/ DvFetch(r)
         \/ HmDlRet(r)
         \/ HmEditFail2(r)
         \/ HmEdit3(r)
         \/ HmSend(r)
         \/ HmDelete(r)
         \/ HmReplyOk(r)
         \/ HmExcept(r)
         \/ HmExcept2(r)
         \/ ErrorHandler(r)
         \/ HmFinish(r)

SpecPeriodic == Init /\ [][NextPeriodic]_vars

\* requests whose link strategy A resolves, several of them in flight at once
NextConc ==
    \/ Startup
    \/ \E r \in Req :
         \/ HmReceiveLink(r)
         \/ HmProcessing(r)
         \/ HmEdit1(r)
         \/ GviAResolved(r)
         \/ HmInfoRet(r)
         \/ HmEdit2(r)
         \/ DvStart(r)
         \/ DvInfoRet(r)
         \/ DvFetchPlain(r)
         \/ HmDlRet(r)
         \/ HmEditFail2(r)
         \/ HmEdit3(r)
         \/ HmSend(r)
         \/ HmDelete(r)
         \/ HmReplyOk(r)
         \/ HmExcept(r)
         \/ HmExcept2(r)
         \/ ErrorHandler(r)
         \/ HmFinish(r)

SpecConc == Init /\ [][NextConc]_vars

\* names and ages of the entries a former run left in downloads/
Leftover == {0 - i : i \in 1..MaxLeftover}
LeftoverAges == {60, 3600, 3601, 7200}

\* the process starts with downloads/ holding Leftover: each entry a directory
\* (with the file a request left in it) or a plain file
InitLeftover ==
    /\ req = [r \in Req |-> InitFrame]
    /\ user_sessions = <<>>
    /\ nextId = 1
    /\ handled = 0
    /\ phase = "startup"
    /\ dirs \in SUBSET Leftover
    /\ files = {[dir |-> d, size |-> 7] : d \in dirs}
    /\ age \in [Leftover -> LeftoverAges]

\* start-up and the passing of time, no message arriving
NextSweep == Startup \/ Tick

SpecSweep == InitLeftover /\ [][NextSweep]_vars

\* the handler up to the first strategy call, on the links of UrlTexts: the
\* classifier and the identifier extraction
NextUrl ==
    \E r \in Req :
      \/ Startup
      \/ Sequential /\ HmReceiveUrl(r)
      \/ HmReplyInvalid(r)
      \/ HmProcessing(r)
      \/ HmEdit1(r)
      \/ GviA(r)
      \/ HmExcept(r)
      \/ HmExcept2(r)
      \/ ErrorHandler(r)
      \/ HmFinish(r)

SpecUrl == Init /\ [][NextUrl]_vars

\* no more than one other update is being handled
OneOther == Cardinality({q \in Req : req[q].pc # "idle"}) <= 1

\* messages and commands of one user, up to two of them in flight at once: the
\* link is one that strategy A resolves or strategy B finds on the page, with
\* or without a media URL, and the media URL answers with the video or HTTP 403
NextCmd ==
    \/ Startup
    \/ \E r \in Req :
         \/ OneOther /\ HmReceiveLink(r)
         \/ OneOther /\ CmdStart(r)
         \/ OneOther /\ CmdQuality(r)
         \/ OneOther /\ CmdSetQuality(r)
         \/ CmdReply(r)
         \/ HmProcessing(r)
         \/ HmEdit1(r)
         \/ GviAEither(r)
         \/ GviBFound(r)
         \/ HmInfoRet(r)
         \/ HmEdit2(r)
         \/ DvStart(r)
         \/ DvInfoRet(r)
         \/ DvFetchPlain(r)
         \/ HmDlRet(r)
         \/ HmEditFail2(r)
         \/ HmEdit3(r)
         \/ HmSend(r)
         \/ HmDelete(r)
         \/ HmReplyOk(r)
         \/ HmExcept(r)
         \/ HmExcept2(r)
         \/ ErrorHandler(r)
         \/ HmFinish(r)

SpecCmd == Init /\ [][NextCmd]_vars

\* ------------------------------------------------------------ properties
\* download_video has just returned to handle_message
DvReturned(f) == f.pc = "hm_dl_ret"

\* get_video_info has just returned to its caller
GviReturned(f) == f.pc \in {"hm_info_ret", "dv_info_ret"}

\* download_video_direct was called and has returned its dict (it did not raise)
FetchReturned(f) == f.fetch_calls > 0 /\ f.dl_result # Failure("Download failed")

\* C1: whenever download_video returns a failure result, the scratch directory
\* downloads/<download_id> it created no longer exists at that moment.
C1_FailedDownloadLeavesNoDir ==
    \A r \in Req :
      DvReturned(req[r]) /\ ~req[r].dl_result.success
        => req[r].download_id \notin dirs

\* C2: when handle_message finishes, no scratch directory created for that
\* request remains under downloads/.
C2_FinishedRequestLeavesNoDir ==
    \A r \in Req :
      req[r].pc = "done" /\ req[r].download_id # 0
        => req[r].download_id \notin dirs

\* C3: a fetch that writes a zero-byte file is a failure: no success result of
\* download_video_direct or of download_video carries file_size = 0.
C3_NoEmptySuccess ==
    \A r \in Req :
      DvReturned(req[r]) /\ FetchReturned(req[r])
        => /\ req[r].download_result.success => req[r].download_result.file_size > 0
           /\ req[r].dl_result.success => req[r].dl_result.file_size > 0

\* C4 as stated: the scratch directory exists during the fetch step and is
\* absent immediately after download_video returns its success.
C4_AbsentAfterDownloadVideo ==
    \A r \in Req :
      /\ req[r].pc = "dv_fetch" => req[r].download_id \in dirs
      /\ DvReturned(req[r]) /\ req[r].dl_result.success
           => req[r].download_id \notin dirs

\* C4 as amended: the scratch directory exists during the fetch step, still
\* exists (holding the file) when download_video returns its success and until
\* reply_video has delivered the file, and is absent from the cleanup that
\* follows the delivery onwards.
C4_PresentUntilDelivered ==
    \A r \in Req :
      /\ req[r].pc = "dv_fetch" => req[r].download_id \in dirs
      /\ DvReturned(req[r]) /\ req[r].dl_result.success
           => req[r].download_id \in dirs /\ file_exists(req[r].download_id)
      /\ req[r].pc \in {"hm_edit3", "hm_send"} => req[r].download_id \in dirs
      /\ req[r].sent => req[r].download_id \notin dirs

\* a delivered request has finished
C4_Witness == \E r \in Req : req[r].pc = "done" /\ req[r].sent

\* the entries of trace tr that are calls of strategy s (or sleeps)
Of(tr, s) == {i \in DOMAIN tr : tr[i].s = s}

\* C5: in a call of get_video_info in which strategy A fails and strategy B
\* succeeds, the value returned is exactly the metadata B produced and strategy
\* C is not invoked during the call.
C5_BSucceedsAfterAFails ==
    \A r \in Req :
      LET tr == req[r].trace IN
        ( /\ GviReturned(req[r])
          /\ \A i \in Of(tr, "A") : tr[i].out = "fail"
          /\ Of(tr, "B") # {}
          /\ \A i \in Of(tr, "B") : tr[i].out = "success" )
        => /\ tr[Len(tr)].s = "B"
           /\ req[r].gres = tr[Len(tr)].res
           /\ req[r].gres.src = "B"
           /\ Of(tr, "C") = {}

\* a call returned after A failed and B succeeded
C5_Witness ==
    \E r \in Req :
      LET tr == req[r].trace IN
        /\ GviReturned(req[r])
        /\ Len(tr) = 2
        /\ tr[1].s = "A" /\ tr[1].out = "fail"
        /\ tr[2].s = "B" /\ tr[2].out = "success"

\* C6: when every strategy fails (returns a failure or raises) on every
\* attempt, get_video_info returns failure after exactly 3 attempts, having
\* slept exactly 2 times, and no sleep follows the last attempt.
C6_ThreeAttemptsTwoSleeps ==
    \A r \in Req :
      LET tr == req[r].trace IN
        ( /\ GviReturned(req[r])
          /\ \A i \in DOMAIN tr : tr[i].out # "success" )
        => /\ ~req[r].gres.success
           /\ Cardinality(Of(tr, "A")) = 3
           /\ {tr[i].attempt : i \in Of(tr, "A")} = {0, 1, 2}
           /\ Cardinality(Of(tr, "sleep")) = 2
           /\ tr[Len(tr)].s # "sleep"
           /\ tr[Len(tr)].attempt = 2

\* a call returned failure after strategies both returned failures and raised
C6_Witness ==
    \E r \in Req :
      LET tr == req[r].trace IN
        /\ GviReturned(req[r])
        /\ ~req[r].gres.success
        /\ \E i \in DOMAIN tr : tr[i].out = "raise"
        /\ \E i \in DOMAIN tr : tr[i].s = "C" /\ tr[i].out = "fail"

\* C7: within each attempt the strategies run strictly in sequence: A first,
\* B only after A failed in that attempt, C only on attempt index 1 after A and
\* B both failed in that attempt (so at most once per call); the first success
\* ends the call.
C7_StrictSequence ==
    \A r \in Req :
      LET tr == req[r].trace
          FailedAt(i, s, a) ==
              i \in DOMAIN tr /\ tr[i].s = s /\ tr[i].out = "fail" /\ tr[i].attempt = a
      IN /\ \A i \in DOMAIN tr :
              /\ (i = 1 \/ tr[i - 1].attempt # tr[i].attempt) => tr[i].s = "A"
              /\ tr[i].s = "A" =>
                   i = 1 \/ (tr[i - 1].attempt = tr[i].attempt - 1
                               /\ tr[i - 1].out # "success")
              /\ tr[i].s = "B" => FailedAt(i - 1, "A", tr[i].attempt)
              /\ tr[i].s = "C" =>
                   /\ tr[i].attempt = 1
                   /\ FailedAt(i - 1, "B", 1)
                   /\ FailedAt(i - 2, "A", 1)
              /\ tr[i].out = "success" => i = Len(tr) /\ GviReturned(req[r])
         /\ Cardinality(Of(tr, "C")) <= 1

\* a call went through all three attempts and the yt-dlp fallback
C7_Witness ==
    \E r \in Req :
      LET tr == req[r].trace IN
        /\ GviReturned(req[r])
        /\ Of(tr, "C") # {}
        /\ tr[Len(tr)].attempt = 2
        /\ tr[Len(tr)].out = "success"

\* C8 as stated: the sleep after attempt 1 is strictly longer than the sleep
\* after attempt 0.
C8_BackoffIncreases ==
    \A r \in Req :
      LET tr == req[r].trace IN
        \A i, j \in Of(tr, "sleep") :
          tr[i].attempt = 0 /\ tr[j].attempt = 1 => tr[j].secs > tr[i].secs

\* C8 as amended: the interval slept between failed attempts does not depend
\* on the attempt index: the sleep after attempt 1 and the sleep after attempt 0
\* are both 5 seconds.
C8_BackoffConstant ==
    \A r \in Req :
      LET tr == req[r].trace IN
        /\ \A i \in Of(tr, "sleep") : tr[i].secs = 5
        /\ \A i, j \in Of(tr, "sleep") :
             tr[i].attempt = 0 /\ tr[j].attempt = 1 => tr[j].secs = tr[i].secs

\* a call has slept after attempt 0 and after attempt 1
C8_Witness ==
    \E r \in Req :
      LET tr == req[r].trace IN
        \E i, j \in Of(tr, "sleep") : tr[i].attempt = 0 /\ tr[j].attempt = 1

\* C9 as stated: the failure returned once all attempts are exhausted carries
\* the error text of the last strategy failure observed during the call.
C9_CarriesLastError ==
    \A r \in Req :
      GviReturned(req[r]) /\ ~req[r].gres.success
        => req[r].gres.error = req[r].last_error

\* C9 as amended: the failure returned once all attempts are exhausted carries
\* the fixed text 'All methods failed to extract video information', which is
\* none of the strategies' error texts; the last observed error is not in it.
C9_CarriesFixedText ==
    \A r \in Req :
      GviReturned(req[r]) /\ ~req[r].gres.success
        => /\ req[r].gres.error = "All methods failed to extract video information"
           /\ req[r].last_error # None
           /\ req[r].gres.error # req[r].last_error

\* a call returned its failure after the last strategy called had raised
C9_Witness ==
    \E r \in Req :
      /\ GviReturned(req[r]) /\ ~req[r].gres.success
      /\ req[r].last_error = FaultText

\* C10: when metadata resolution succeeds but the metadata has no video_url,
\* download_video returns failure 'No video URL found for download' and
\* download_video_direct is never invoked.
C10_NoUrlNoFetch ==
    \A r \in Req :
      DvReturned(req[r]) /\ req[r].gres.success /\ req[r].gres.video_url = ""
        => /\ req[r].dl_result = Failure("No video URL found for download")
           /\ req[r].fetch_calls = 0

\* download_video returned for metadata without a media URL
C10_Witness ==
    \E r \in Req :
      DvReturned(req[r]) /\ req[r].gres.success /\ req[r].gres.video_url = ""

\* C11: when download_video_direct fails with a reason ('HTTP 403',
\* 'Download error: ...'), the failure download_video returns carries that same
\* reason, so a fetch failure is told apart from a missing media URL.
C11_FetchReasonCarried ==
    \A r \in Req :
      ( /\ DvReturned(req[r]) /\ FetchReturned(req[r])
        /\ ~req[r].download_result.success )
      => /\ ~req[r].dl_result.success
         /\ req[r].dl_result.error = req[r].download_result.error
         /\ req[r].dl_result.error # "No video URL found for download"

\* the texts the classifier accepts
ValidTexts == {t \in DOMAIN photo_ids : is_valid_kuaishou_url(t)}

\* the positions of handle_message on the path of a rejected text
RejectedPcs == {"hm_reply_invalid", "error_handler", "done"}

\* C12: for every text is_valid_kuaishou_url classifies as invalid (empty and
\* whitespace-only included), handle_message replies with the invalid-link
\* notice and returns: no extraction strategy and no fetcher is invoked and no
\* scratch directory is created for the message.
C12_InvalidTextEndsAtNotice ==
    \A r \in Req :
      req[r].pc # "idle" /\ req[r].text \notin ValidTexts
        => /\ req[r].pc \in RejectedPcs
           /\ req[r].photo_id = None /\ req[r].trace = <<>>
           /\ req[r].fetch_calls = 0
           /\ req[r].download_id = 0
           /\ handled = 1 => dirs = {} /\ nextId = 1

\* the notice for a whitespace-only text has been sent and the handler returned
C12_Witness ==
    \E r \in Req : req[r].pc = "done" /\ req[r].text = "" /\ handled = 1

\* C13: when the identifier extracted from an accepted link is empty, the
\* request ends as a classification failure: no strategy issues a request
\* with the empty identifier, and the strategy chain is not gone through.
C13_EmptyIdNotRequested ==
    \A r \in Req :
      /\ req[r].photo_id # ""
      /\ req[r].pc \in {"gvi_B", "hm_info_ret"} => photo_ids[req[r].text] # ""

\* the bare homepage, a profile page, a recommendation page
BlockListed ==
    { "https://www.kuaishou.com/",
      "https://www.kuaishou.com/profile/3xabc?x=1",
      "https://www.kuaishou.com/new-reco" }

\* C14: the classifier rejects the bare homepage, profile pages and
\* feed/recommendation pages although they contain an allow-listed domain: no
\* such text gets past the validity check of handle_message.
C14_BlockListWins ==
    \A r \in Req :
      req[r].pc # "idle" /\ req[r].text \in BlockListed
        => req[r].pc \in RejectedPcs /\ req[r].text \notin ValidTexts

\* what the photoId pattern yields: the query parameter, else photoId=... in
\* the text when it has at least min_id_len characters
photoId_value(u) ==
    IF parse_qs_first(url_query(u), "photoId") # ""
    THEN parse_qs_first(url_query(u), "photoId")
    ELSE IF Len(search_after(u, "photoId=", {"&"})) >= min_id_len
    THEN search_after(u, "photoId=", {"&"})
    ELSE ""

TryPcs ==
    {"hm_edit1", "hm_info_ret", "hm_edit_fail1", "hm_edit2", "dv_start", "hm_edit_fail2",
     "hm_edit3", "hm_send", "hm_delete", "hm_reply_ok"} \cup GviPcs \cup DvPcs

\* C20 as stated: a fault raised while handle_message processes a message
\* never propagates out of the handler (error_handler is never entered).
C20_NeverPropagates == \A r \in Req : req[r].pc # "error_handler"

\* C20 as amended: a fault raised inside the try block of handle_message is
\* caught by its except clause; only a fault of the two replies before the try
\* block or of the last reply of the except clause propagates out of
\* handle_message, to error_handler, which ends the update whatever its own
\* reply does; a handler that ended leaves the way free for the next message.
C20_CaughtAtBoundary ==
    [][\A r \in Req :
         /\ req[r].pc \in TryPcs => req'[r].pc \in TryPcs \cup {"hm_except", "done"}
         /\ req[r].pc # "error_handler" /\ req'[r].pc = "error_handler"
              => req[r].pc \in {"hm_reply_invalid", "hm_processing", "hm_except2"}
         /\ req[r].pc = "hm_except" => req'[r].pc \in {"hm_except", "hm_except2", "done"}
         /\ req[r].pc = "error_handler" => req'[r].pc \in {"error_handler", "done"}
         /\ req[r].pc = "done" => req'[r].pc \in {"done", "idle"} /\ ENABLED HmFinish(r)
         /\ req'[r].error_handled => req'[r].pc = "done"]_vars

\* a fault left handle_message, error_handler took it and the update ended
C20_Witness == \E r \in Req : req[r].pc = "done" /\ req[r].error_handled

\* C16: one run of cleanup_downloads removes exactly the sub-directories of
\* downloads/ whose age exceeds 3600 seconds, with what they hold, and leaves
\* the younger ones and the entries that are no directories untouched.
C16_SweepRemovesOldOnly ==
    [][phase = "startup" /\ phase' = "serving"
         => /\ dirs' = {d \in dirs : age[d] <= 3600}
            /\ \A d \in dirs : age[d] = 7200 => d \notin dirs'
            /\ \A d \in dirs : age[d] = 60 => d \in dirs'
            /\ DOMAIN age' = DOMAIN age \ (dirs \ dirs')
            /\ \A e \in DOMAIN age' : age'[e] = age[e]
            /\ files' = {x \in files : x.dir \in dirs'}]_vars

\* the sweep has run on an old directory, a directory of 60 s and a plain file
\* of 7200 s: only the first is gone
C16_Witness ==
    /\ phase = "serving"
    /\ \E d \in Leftover : d \notin DOMAIN age
    /\ \E d \in dirs : age[d] = 60
    /\ \E e \in DOMAIN age \ dirs : age[e] = 7200

\* C17: the sweep runs periodically while the bot serves requests: whenever
\* a scratch directory left behind is older than one hour, a run of
\* cleanup_downloads that removes it is still to come, without a restart.
C17_SweepStillToCome ==
    \A d \in dirs : age[d] > 3600 => ENABLED Startup

\* C18: the sweep never removes the scratch directory of an in-flight
\* request, in any interleaving of sweep runs and requests whose duration is
\* below 3600 seconds: a step that is not the request's own leaves its
\* directory and the file in it in place.
C18_SweepSparesInFlight ==
    [][\A r \in Req :
         HoldsDir(req[r]) /\ req'[r].pc = req[r].pc
           => /\ req[r].download_id \in dirs'
              /\ {x \in files' : x.dir = req[r].download_id}
                   = {x \in files : x.dir = req[r].download_id}]_vars

\* a sweep has run during a request whose directory had got older
C18_Witness ==
    \E r \in Req :
      /\ HoldsDir(req[r]) /\ req[r].sweep_seen
      /\ age[req[r].download_id] > 0

\* the files of directory d among F
FilesIn(F, d) == {x \in F : x.dir = d}

\* C19: with several requests in flight at once, each owns its scratch
\* directory: the download ids being distinct, a step of a request creates,
\* writes into, reads from and deletes the directory of its own id only.
C19_OwnDirOnly ==
    [][/\ \A r, q \in Req :
            r # q /\ req[r].download_id # 0 => req[r].download_id # req[q].download_id
       /\ \A r \in Req :
            req[r].pc \in {"hm_edit3", "hm_send"}
              => req[r].dl_result.download_id = req[r].download_id
       /\ \A d \in dirs \cup dirs' :
            (d \in dirs) # (d \in dirs') \/ FilesIn(files, d) # FilesIn(files', d)
              => \E r \in Req :
                   /\ req'[r].pc # req[r].pc
                   /\ req'[r].download_id = d
                   /\ \A q \in Req \ {r} : req'[q] = req[q]]_vars

\* a request has delivered its file and removed its directory while another
\* one holds its directory with the file in it
C19_Witness ==
    \E r, q \in Req :
      /\ req[r].sent /\ req[r].download_id \notin dirs
      /\ HoldsDir(req[q]) /\ file_exists(req[q].download_id)

\* handle_message has returned without the video having been delivered
EndedInFailure(f) == f.pc = "done" /\ ~f.sent

\* C21 (as stated): every request that ends in a terminal failure has shown the
\* user exactly one failure notice, never zero and never more than one
C21_ExactlyOneNotice ==
    \A r \in Req : EndedInFailure(req[r]) => req[r].notices = 1

\* C21 (amended): a request never shows more than one failure notice; one that
\* ends in a terminal failure has shown exactly one, unless every Telegram call
\* that carried the notice raised, the last of them error_handler's own reply,
\* and then it has shown none
C21_AtMostOneNotice ==
    \A r \in Req :
      /\ req[r].notices <= 1
      /\ req[r].notices = 1 /\ ~req[r].sent => req[r].pc = "done"
      /\ EndedInFailure(req[r]) /\ req[r].notices = 0 => req[r].error_handled

\* a download that failed has ended with its one notice
C21_Witness ==
    \E r \in Req :
      /\ EndedInFailure(req[r])
      /\ req[r].download_id # 0
      /\ req[r].notices = 1
      /\ ~req[r].error_handled

\* C22: for one message get_video_info is driven once, so that strategy A is
\* invoked at most max_retries times and the backoff sleep at most
\* max_retries - 1 times for that message
C22_ChainDrivenOnce ==
    \A r \in Req :
      /\ req[r].gvi_calls <= 1
      /\ req[r].a_calls <= max_retries
      /\ req[r].sleeps <= max_retries - 1

\* C23: at every moment each sub-directory of downloads/ holds zero or one
\* file: one call of download_video calls the fetcher at most once (a failed
\* fetch is not retried) and the fetcher writes at most one file
C23_OneFilePerDir ==
    /\ \A d \in dirs \cup {x.dir : x \in files} : Cardinality(FilesIn(files, d)) <= 1
    /\ \A r \in Req : req[r].fetch_calls <= 1

\* download_video has returned after its one fetch, whose file is the only one
\* in the scratch directory, a directory left by an earlier request being empty
C23_Witness ==
    \E r \in Req :
      /\ DvReturned(req[r])
      /\ req[r].fetch_calls = 1
      /\ Cardinality(FilesIn(files, req[r].download_id)) = 1
      /\ \E d \in dirs : FilesIn(files, d) = {}

\* what the upstream answered the strategy calls of a get_video_info call, in
\* order: how each ended and the media URL it gave
Answers(tr) ==
    [i \in 1..Len(tr) |->
       [out |-> tr[i].out,
        url |-> IF tr[i].out = "success" THEN tr[i].res.video_url ELSE ""]]

\* the strategies (and sleeps) of a get_video_info call, in order
Strategies(tr) == [i \in 1..Len(tr) |-> tr[i].s]

\* two download_video calls on the same link whose get_video_info has returned
\* after the same upstream answers
SameResolution(f, g) ==
    /\ f.pc = "dv_info_ret" /\ g.pc = "dv_info_ret"
    /\ f.text = g.text
    /\ Answers(f.trace) = Answers(g.trace)

\* two download_video calls on the same link that have returned after the same
\* metadata and the same answer of the media URL
SameRun(f, g) ==
    /\ DvReturned(f) /\ DvReturned(g)
    /\ f.text = g.text
    /\ f.gres = g.gres
    /\ f.fetch_calls = g.fetch_calls
    /\ FetchReturned(f) = FetchReturned(g)
    /\ FetchReturned(f) => f.download_result = g.download_result

\* a result of download_video without what differs from call to call by
\* construction: the echoed quality and the fresh download id
Echoless(res) ==
    IF res.success THEN [res EXCEPT !.quality = "", !.download_id = 0] ELSE res

\* C24: the quality is advisory only: two calls of download_video on the same
\* link with the same upstream answers invoke the same strategies, resolve
\* (and so fetch) the same media URL, and return results that differ only in the
\* echoed quality, whatever the two quality values
C24_QualityAdvisory ==
    \A r, q \in Req :
      /\ SameResolution(req[r], req[q])
           => /\ Strategies(req[r].trace) = Strategies(req[q].trace)
              /\ req[r].gres = req[q].gres
      /\ SameRun(req[r], req[q])
           => Echoless(req[r].dl_result) = Echoless(req[q].dl_result)
      /\ DvReturned(req[r]) /\ req[r].dl_result.success
           => req[r].dl_result.quality = req[r].user_quality

\* two calls with different qualities have returned the same video, which
\* strategy B resolved after strategy A had failed
C24_Witness ==
    \E r, q \in Req :
      /\ SameRun(req[r], req[q])
      /\ req[r].user_quality # req[q].user_quality
      /\ req[r].dl_result.success
      /\ req[r].gres.src = "B"
      /\ req[r].dl_result.quality # req[q].dl_result.quality

\* handler instance r takes a set_quality command in this step
TakesSetQuality(r) ==
    /\ req[r].pc = "idle" /\ req'[r].pc # "idle"
    /\ req'[r].text \in DOMAIN set_quality_value

\* C25: a set_quality_<q> command of any user, one without a session included,
\* completes normally and leaves <q> stored for that user; a download reads
\* the stored quality, which is "best" in a session just created
C25_SetQualityStores ==
    [][\A r \in Req :
         /\ TakesSetQuality(r)
              => /\ req'[r].pc = "cmd_reply"
                 /\ req'[r].user \in DOMAIN user_sessions'
                 /\ user_sessions'[req'[r].user].quality = set_quality_value[req'[r].text]
         /\ req[r].pc = "hm_info_ret" /\ req'[r].pc = "hm_edit2"
              => req'[r].user_quality = user_sessions[req[r].user].quality
         /\ \A u \in DOMAIN user_sessions' \ DOMAIN user_sessions :
              user_sessions'[u].quality = "best"]_vars

\* C26: for one message the user never gets both the video and a failure
\* notice: once reply_video has succeeded no failure notice is shown for that
\* request, whatever a later step does
C26_NoNoticeAfterVideo ==
    \A r \in Req : req[r].sent => req[r].notices = 0

\* the session of user u is created in this step: by first contact or by /start
SessionCreated(u) ==
    \/ u \notin DOMAIN user_sessions
    \/ \E r \in Req :
         /\ req[r].pc = "idle" /\ req'[r].pc # "idle"
         /\ req'[r].text = "/start" /\ req'[r].user = u

\* the videos handed to reply_video for user u in this step
Delivered(u) == {r \in Req : req[r].user = u /\ ~req[r].sent /\ req'[r].sent}

\* C27: download_count counts the videos delivered to the user since the
\* session was last created: every step leaves it at 0 when it creates the
\* session and otherwise adds the deliveries of the step, none for a request
\* that fails, one for each delivery also when two requests are in flight
C27_CountsDeliveries ==
    [][\A u \in DOMAIN user_sessions' :
         user_sessions'[u].download_count =
           IF SessionCreated(u) THEN 0
           ELSE user_sessions[u].download_count + Cardinality(Delivered(u))]_vars

\* two requests of one user, in flight together, have both delivered their
\* video and both are counted
C27_Witness ==
    \E r, q \in Req :
      /\ r # q
      /\ req[r].user = req[q].user
      /\ req[r].sent /\ req[q].sent
      /\ InFlight(req[r]) /\ InFlight(req[q])
      /\ user_sessions[req[r].user].download_count = 2

====
